---- MODULE Spec2Model ----
(***************************************************************************)
(* Kaury Pi Hub: the chat relay (WebSocket server, persisted message       *)
(* list), the upload/download/delete handlers and the system-info cache,   *)
(* modelled from the server sources, with the message handler of the       *)
(* messaging client.                                                       *)
(*                                                                         *)
(* The repository holds two revisions of the relay: the express server     *)
(* (unnamed/part_000, the README's server.cjs) and the plain http server   *)
(* (server.js:1-80).  chatBuild says which one runs.                       *)
(***************************************************************************)
EXTENDS Integers, Sequences, FiniteSets, TLC

VARIABLES
    chatBuild,      \* "hub" (unnamed/part_000) or "relay" (server.js:1-80)
    up,             \* the server process is running
    messages,       \* let messages: the in-memory list, newest first
    connState,      \* per connection: "NEW" before it connects, then the
                    \* readyState of the server-side socket
    sent,           \* per connection: the frames the server sent on it, in order
    delivered,      \* per connection: how many of them the client has handled
    view,           \* per connection: the client's displayed list (useState messages)
    pendingWrites,  \* fs.writeFile calls started and not yet completed (their data)
    fileContent,    \* what messages.json holds on disk
    started,        \* history: the data of every write started since boot
    log,            \* history: the messages stored since the list was last empty
    fromEmpty,      \* history: the list was empty at boot or at the last clear
    nFrames,        \* history: inbound frames handled so far
    lastFrame,      \* history: kind of the inbound frame handled last
    nMut,           \* history: message and clear frames applied since boot
    listAtConnect,  \* history: per connection, the list when it connected
    applied         \* history: the frames the server broadcast, in the
                    \* order it applied them

VARIABLES
    now,            \* Date.now(), in milliseconds
    uploadsDir,     \* the uploads directory: disk filename -> bytes of the file
    resp,           \* the HTTP response to the request handled last
    dirBefore,      \* history: the uploads directory before that request
    descriptors,    \* history: the file descriptors the upload route returned,
                    \* each with the bytes that were uploaded for it
    assigned,       \* history: every disk filename multer was given, in order
    lastUpload      \* history: the files of the upload request handled last

fileVars == <<uploadsDir, resp, dirBefore, descriptors, assigned, lastUpload>>

VARIABLES
    metricsBuild,     \* "server" (server.js:82-278) or "index" (server/index.js)
    systemInfoCache,  \* <<>> for null, else <<the cached payload>>
    lastUpdate,       \* let lastUpdate
    reqs              \* per /api/system-info request: where its handler is,
                      \* the Date.now() it read, the payload and status it
                      \* answered; history: how the payload was obtained
                      \* (via), and lastUpdate and whether a cache existed
                      \* when it started (seen, hadCache)

metricVars == <<metricsBuild, systemInfoCache, lastUpdate, reqs>>

chatVars == <<chatBuild, up, messages, connState, sent, delivered, view,
              pendingWrites, fileContent, started, log, fromEmpty, nFrames,
              lastFrame, nMut, listAtConnect, applied>>

VARIABLES
    isDark,            \* App: const [isDark, setIsDark]
    storedTheme,       \* localStorage 'theme': "none" when the key is absent
    storedAtLoad,      \* history: what 'theme' held when the page was loaded
    shownBeforeLoad,   \* history: the theme shown just before the last
                       \* reload, "none" before any reload
    darkAtLoad,        \* history: isDark as the page load initialised it
    toggles,           \* history: clicks on the theme button since the load
    msMounted,         \* the MessageSystem component is mounted
    connectionStatus,  \* MessageSystem: const [connectionStatus, ...]
    sockets,           \* the readyState of every WebSocket the client
                       \* made, in order; wsRef.current is the last one
    timer,             \* reconnectTimeoutRef and the timeout it names
    socketMade,        \* history: per socket, Date.now() when it was made
                       \* and what made it (the mount effect or the timeout)
    closedAt           \* history: per socket, Date.now() at its close event

clientVars == <<isDark, storedTheme, storedAtLoad, shownBeforeLoad, darkAtLoad,
                toggles, msMounted, connectionStatus, sockets, timer,
                socketMade, closedAt>>

VARIABLES
    uploading,      \* FileUpload: const [uploading, setUploading]
    shownFiles,     \* FileUpload: const [files, setFiles], as the number of
                    \* files the displayed list holds
    serverFiles,    \* the number of files GET /api/files would list
    notification,   \* FileUpload: the notification shown, "none" for null
    upPc,           \* where uploadFiles is: "idle", awaiting the "upload"
                    \* request, or awaiting the "reload" of the list
    mountLoad,      \* the loadFiles() of the mount effect: "pending" or "done"
    uploadsStarted, \* history: calls of uploadFiles so far
    upOutcome,      \* history: how the upload request of the last call settled
    systemInfo,     \* SystemStatus: const [systemInfo, setSystemInfo]
    isLoading,      \* SystemStatus: const [isLoading, setIsLoading]
    isOnline,       \* SystemStatus: const [isOnline, setIsOnline]
    statusError,    \* SystemStatus: const [error, setError], "none" for null
    inFlight,       \* fetches of /api/system-info not yet settled
    fetchesMade,    \* history: calls of fetchSystemInfo so far
    settled,        \* history: how many of them have settled
    fetchOutcome,   \* history: how the fetch that settled last ended
    fetchData       \* history: the payload it carried, if any

panelVars == <<uploading, shownFiles, serverFiles, notification, upPc,
               mountLoad, uploadsStarted, upOutcome, systemInfo, isLoading,
               isOnline, statusError, inFlight, fetchesMade, settled,
               fetchOutcome, fetchData>>

VARIABLES
    osUptime,       \* os.uptime(): whole seconds since the host booted
    uptimeTicks,    \* history: seconds elapsed since Init
    uptime,         \* the uptime text of the last payload, <<>> before any
    uptimeOf        \* history: the seconds that text was formatted from

uptimeVars == <<osUptime, uptimeTicks, uptime, uptimeOf>>

vars == <<chatVars, now, fileVars, metricVars, clientVars, panelVars,
          uptimeVars>>

----------------------------------------------------------------------------
(* Bounds of the model *)

\* The cap of the list.  The sources use 1000 (part_000:169-170,
\* server.js:59); the model runs the same insert-and-truncate code at a
\* small cap so that the list overflows within the explored runs.
MAX_MESSAGES == 2

\* Inbound frames handled in one run.
MaxFrames == 3

\* Files uploaded in one run.
MaxUploads == 2

\* Date.now() when the run starts.
StartTime == 9

\* WebSockets one page makes, and clicks on the theme button, in one run.
MaxSockets == 3
MaxToggles == 3

\* Calls of uploadFiles and of fetchSystemInfo in one run.
MaxClientUploads == 2
MaxFetches == 3

\* Seconds that pass in one run of the uptime formatting.
MaxUptimeTicks == 4

Conns == {"c1", "c2"}

Builds == {"hub", "relay"}

\* messages.json absent, or holding text JSON.parse rejects.
Missing == [state |-> "missing", data |-> <<>>]
Corrupt == [state |-> "corrupt", data |-> <<>>]

\* messages.json holding the JSON text of a list.
JsonFile(list) == [state |-> "json", data |-> list]

----------------------------------------------------------------------------
(* Helpers on sequences *)

Min(a, b) == IF a < b THEN a ELSE b

\* Array.prototype.slice(0, n)
Slice0(s, n) == SubSeq(s, 1, Min(n, Len(s)))

\* Array.prototype.unshift(x)
Unshift(s, x) == <<x>> \o s

\* Array.prototype.pop(): the array without its last element
Pop(s) == SubSeq(s, 1, Len(s) - 1)

RemoveAt(s, i) == SubSeq(s, 1, i - 1) \o SubSeq(s, i + 1, Len(s))

----------------------------------------------------------------------------
(* The chat relay: unnamed/part_000:19-32, 147-197 and server.js:10-22, 50-76 *)

\* The frames of the socket protocol (JSON text frames).
InitFrameWithoutHistory(list) == [type |-> "init", messages |-> <<>>]

InitFrame(list) == [type |-> "init", messages |-> list]
MessageFrame(message) == [type |-> "message", message |-> message]
ClearFrame == [type |-> "clear"]

\* What a client puts in payload.message: its own id and its own timestamp.
ClientMessage(id) == [id |-> id, timestamp |-> "client"]

\* Kinds of inbound text frames: the two commands, text that is not JSON,
\* a JSON object of another type, a JSON number, and the JSON text null.
FrameKinds == {"message", "clear", "badjson", "unknown", "number", "null"}

\* The kinds for which the handler returns without taking a branch: the
\* catch of JSON.parse, and a payload whose .type is no command (the .type
\* of a number is undefined).
IgnoredKinds == {"badjson", "unknown", "number"}

LoadMessagesWithoutCatch(file) ==
    IF file.state = "json" THEN file.data
    ELSE <<[id |-> 0, timestamp |-> file.state]>>

\* Startup: readFileSync + JSON.parse, [] when either throws.
LoadMessages(file) == IF file.state = "json" THEN file.data ELSE <<>>

SaveMessagesSkipped(pending, list) == pending

\* saveMessages(): one fs.writeFile of JSON.stringify(messages), not awaited.
SaveMessages(pending, list) == Append(pending, list)

\* part_000:162-165: the stored message is payload.message with the
\* timestamp replaced by the server's clock.
HubMessage(payloadMessage) == [payloadMessage EXCEPT !.timestamp = "server"]

\* server.js:57: the stored message is payload.message itself.
RelayMessage(payloadMessage) == payloadMessage

StoredMessage(build, payloadMessage) ==
    IF build = "hub" THEN HubMessage(payloadMessage)
    ELSE RelayMessage(payloadMessage)

HubNoTruncate(list) == list

\* part_000:169-171: if (messages.length > 1000) messages = messages.slice(0, 1000)
HubTruncate(list) ==
    IF Len(list) > MAX_MESSAGES THEN Slice0(list, MAX_MESSAGES) ELSE list

RelayTruncateShift(list) ==
    IF Len(list) > MAX_MESSAGES THEN Tail(list) ELSE list

\* server.js:59: if (messages.length > 1000) messages.pop()
RelayTruncate(list) ==
    IF Len(list) > MAX_MESSAGES THEN Pop(list) ELSE list

\* messages.unshift(message) followed by the build's truncation.
Insert(build, list, message) ==
    IF build = "hub" THEN HubTruncate(Unshift(list, message))
    ELSE RelayTruncate(Unshift(list, message))

BroadcastAtFront(snt, state, frame) ==
    [c \in Conns |-> IF state[c] = "OPEN" THEN <<frame>> \o snt[c] ELSE snt[c]]

BroadcastNoStateCheck(snt, state, frame) ==
    [c \in Conns |-> IF state[c] \in {"OPEN", "CLOSING"}
                     THEN Append(snt[c], frame) ELSE snt[c]]

\* wss.clients.forEach(client => { if (client.readyState === client.OPEN)
\* client.send(frame) }): the frames sent per connection afterwards.
Broadcast(snt, state, frame) ==
    [c \in Conns |-> IF state[c] = "OPEN" THEN Append(snt[c], frame) ELSE snt[c]]

\* The branch payload.type === 'message' of ws.on('message').
OnMessageFrame(build, list, pending, snt, state, payloadMessage) ==
    LET message == StoredMessage(build, payloadMessage)
        after == Insert(build, list, message)
    IN  [messages |-> after,
         pendingWrites |-> SaveMessages(pending, after),
         sent |-> Broadcast(snt, state, MessageFrame(message)),
         stored |-> <<message>>]

\* The branch payload.type === 'clear' of ws.on('message').
OnClearFrame(list, pending, snt, state) ==
    [messages |-> <<>>,
     pendingWrites |-> SaveMessages(pending, <<>>),
     sent |-> Broadcast(snt, state, ClearFrame),
     stored |-> <<>>]

ClientOnMessageKeepsOnClear(list, frame) ==
    IF frame.type = "init" THEN frame.messages
    ELSE IF frame.type = "message" THEN <<frame.message>> \o list
    ELSE list

\* The messaging client's ws.onmessage (FileUpload.tsx:1103-1118, 821-843).
ClientOnMessage(list, frame) ==
    IF frame.type = "init" THEN frame.messages
    ELSE IF frame.type = "message" THEN <<frame.message>> \o list
    ELSE IF frame.type = "clear" THEN <<>>
    ELSE list

\* The relay just started.  builds: the revisions of the relay that may be
\* the one running; files: what messages.json may hold at that moment.
InitChat(builds, files) ==
    /\ chatBuild \in builds
    /\ up = TRUE
    /\ fileContent \in files
    /\ messages = LoadMessages(fileContent)
    /\ connState = [c \in Conns |-> "NEW"]
    /\ sent = [c \in Conns |-> <<>>]
    /\ delivered = [c \in Conns |-> 0]
    /\ view = [c \in Conns |-> <<>>]
    /\ pendingWrites = <<>>
    /\ started = <<>>
    /\ log = <<>>
    /\ fromEmpty = TRUE
    /\ nFrames = 0
    /\ lastFrame = "none"
    /\ nMut = 0
    /\ listAtConnect = [c \in Conns |-> <<>>]
    /\ applied = <<>>

\* wss.on('connection'): the socket is OPEN and in wss.clients when the
\* handler runs, and the handler's first statement sends the init frame.
OnConnection(c) ==
    /\ up
    /\ connState[c] = "NEW"
    /\ connState' = [connState EXCEPT ![c] = "OPEN"]
    /\ sent' = [sent EXCEPT ![c] = <<InitFrame(messages)>>]
    /\ delivered' = [delivered EXCEPT ![c] = 0]
    /\ view' = [view EXCEPT ![c] = <<>>]
    /\ listAtConnect' = [listAtConnect EXCEPT ![c] = messages]
    /\ UNCHANGED <<chatBuild, up, messages, pendingWrites, fileContent,
                   started, log, fromEmpty, nFrames, lastFrame, nMut, applied>>
    /\ UNCHANGED <<now, fileVars, metricVars, clientVars, panelVars, uptimeVars>>

\* ws.on('message') for a frame {type: 'message', message}.
OnMessage(c) ==
    /\ up
    /\ connState[c] = "OPEN"
    /\ nFrames < MaxFrames
    /\ LET eff == OnMessageFrame(chatBuild, messages, pendingWrites, sent,
                                 connState, ClientMessage(nFrames + 1))
       IN  /\ messages' = eff.messages
           /\ pendingWrites' = eff.pendingWrites
           /\ sent' = eff.sent
           /\ started' = started \o SubSeq(eff.pendingWrites,
                              Len(pendingWrites) + 1, Len(eff.pendingWrites))
           /\ log' = log \o eff.stored
    /\ nFrames' = nFrames + 1
    /\ lastFrame' = "message"
    /\ nMut' = nMut + 1
    /\ applied' = Append(applied, MessageFrame(messages'[1]))
    /\ UNCHANGED <<chatBuild, up, connState, delivered, view, fileContent,
                   fromEmpty, listAtConnect>>
    /\ UNCHANGED <<now, fileVars, metricVars, clientVars, panelVars, uptimeVars>>

\* ws.on('message') for a frame {type: 'clear'}.
OnClear(c) ==
    /\ up
    /\ connState[c] = "OPEN"
    /\ nFrames < MaxFrames
    /\ LET eff == OnClearFrame(messages, pendingWrites, sent, connState)
       IN  /\ messages' = eff.messages
           /\ pendingWrites' = eff.pendingWrites
           /\ sent' = eff.sent
           /\ started' = started \o SubSeq(eff.pendingWrites,
                              Len(pendingWrites) + 1, Len(eff.pendingWrites))
    /\ log' = <<>>
    /\ fromEmpty' = TRUE
    /\ nFrames' = nFrames + 1
    /\ lastFrame' = "clear"
    /\ nMut' = nMut + 1
    /\ applied' = Append(applied, ClearFrame)
    /\ UNCHANGED <<chatBuild, up, connState, delivered, view, fileContent,
                   listAtConnect>>
    /\ UNCHANGED <<now, fileVars, metricVars, clientVars, panelVars, uptimeVars>>

\* ws.on('message') for text JSON.parse rejects (the catch returns) and for
\* a JSON value whose type is neither 'message' nor 'clear' (no branch).
OnIgnoredFrame(c, kind) ==
    /\ up
    /\ connState[c] = "OPEN"
    /\ nFrames < MaxFrames
    /\ kind \in IgnoredKinds
    /\ nFrames' = nFrames + 1
    /\ lastFrame' = kind
    /\ UNCHANGED <<chatBuild, up, messages, connState, sent, delivered, view,
                   pendingWrites, fileContent, started, log, fromEmpty, nMut,
                   listAtConnect, applied>>
    /\ UNCHANGED <<now, fileVars, metricVars, clientVars, panelVars, uptimeVars>>

\* ws.on('message') for the JSON text null: JSON.parse returns null and
\* payload.type throws a TypeError outside the try, which no handler
\* catches: the process exits.  Every socket closes; a write in flight is
\* lost, or leaves messages.json truncated.
OnNullFrame(c) ==
    /\ up
    /\ connState[c] = "OPEN"
    /\ nFrames < MaxFrames
    /\ nFrames' = nFrames + 1
    /\ lastFrame' = "null"
    /\ up' = FALSE
    /\ messages' = <<>>
    /\ connState' = [d \in Conns |->
                        IF connState[d] = "NEW" THEN "NEW" ELSE "CLOSED"]
    /\ pendingWrites' = <<>>
    /\ fileContent' \in (IF pendingWrites = <<>> THEN {fileContent}
                          ELSE {fileContent, Corrupt})
    /\ started' = <<>>
    /\ nMut' = 0
    /\ log' = <<>>
    /\ fromEmpty' = TRUE
    /\ UNCHANGED <<chatBuild, sent, delivered, view, listAtConnect, applied>>
    /\ UNCHANGED <<now, fileVars, metricVars, clientVars, panelVars, uptimeVars>>

\* The process starts again: the module's top level runs (load from file).
Restart ==
    /\ ~up
    /\ up' = TRUE
    /\ messages' = LoadMessages(fileContent)
    /\ started' = <<>>
    /\ nMut' = 0
    /\ log' = <<>>
    /\ fromEmpty' = (LoadMessages(fileContent) = <<>>)
    /\ UNCHANGED <<chatBuild, connState, sent, delivered, view, pendingWrites,
                   fileContent, nFrames, lastFrame, listAtConnect, applied>>
    /\ UNCHANGED <<now, fileVars, metricVars, clientVars, panelVars, uptimeVars>>

\* One fs.writeFile completes; completions come in any order, and while
\* another write of the same file is in flight the two may interleave on
\* disk and leave text that is not the JSON of either.
WriteComplete(i) ==
    /\ up
    /\ i \in 1..Len(pendingWrites)
    /\ fileContent' \in (IF Len(pendingWrites) > 1
                          THEN {JsonFile(pendingWrites[i]), Corrupt}
                          ELSE {JsonFile(pendingWrites[i])})
    /\ pendingWrites' = RemoveAt(pendingWrites, i)
    /\ UNCHANGED <<chatBuild, up, messages, connState, sent, delivered, view,
                   started, log, fromEmpty, nFrames, lastFrame, nMut,
                   listAtConnect, applied>>
    /\ UNCHANGED <<now, fileVars, metricVars, clientVars, panelVars, uptimeVars>>

\* The client closes its socket (FileUpload.tsx:845-847, 1142-1145): the
\* server-side socket leaves OPEN and stays in wss.clients while CLOSING.
ClientClose(c) ==
    /\ connState[c] = "OPEN"
    /\ connState' = [connState EXCEPT ![c] = "CLOSING"]
    /\ UNCHANGED <<chatBuild, up, messages, sent, delivered, view,
                   pendingWrites, fileContent, started, log, fromEmpty,
                   nFrames, lastFrame, nMut, listAtConnect, applied>>
    /\ UNCHANGED <<now, fileVars, metricVars, clientVars, panelVars, uptimeVars>>

\* The closing handshake ends: ws.on('close') runs, the socket is removed.
OnClose(c) ==
    /\ connState[c] = "CLOSING"
    /\ connState' = [connState EXCEPT ![c] = "CLOSED"]
    /\ UNCHANGED <<chatBuild, up, messages, sent, delivered, view,
                   pendingWrites, fileContent, started, log, fromEmpty,
                   nFrames, lastFrame, nMut, listAtConnect, applied>>
    /\ UNCHANGED <<now, fileVars, metricVars, clientVars, panelVars, uptimeVars>>

\* The client handles the next frame the server sent it (ws.onmessage);
\* a socket that has left OPEN delivers nothing more.
Deliver(c) ==
    /\ connState[c] = "OPEN"
    /\ delivered[c] < Len(sent[c])
    /\ delivered' = [delivered EXCEPT ![c] = delivered[c] + 1]
    /\ view' = [view EXCEPT ![c] = ClientOnMessage(view[c], sent[c][delivered[c] + 1])]
    /\ UNCHANGED <<chatBuild, up, messages, connState, sent, pendingWrites,
                   fileContent, started, log, fromEmpty, nFrames, lastFrame,
                   nMut, listAtConnect, applied>>
    /\ UNCHANGED <<now, fileVars, metricVars, clientVars, panelVars, uptimeVars>>

----------------------------------------------------------------------------
(* The file routes: unnamed/part_000:34-135 *)

\* Names and stored filenames are sequences of characters.  "xC3" ... are
\* the characters multer hands over for the UTF-8 bytes of a name (it reads
\* the bytes as latin1); "U+00E9" and "U+6587" are the characters they encode.
DigitChars == <<"0", "1", "2", "3", "4", "5", "6", "7", "8", "9">>

IsDigit(c) == \E i \in 1..10 : DigitChars[i] = c

\* `${timestamp}`: the decimal digits of a non-negative integer.
RECURSIVE Digits(_)
Digits(n) ==
    IF n < 10 THEN <<DigitChars[n + 1]>>
    ELSE Digits(n \div 10) \o <<DigitChars[(n % 10) + 1]>>

\* Buffer.from(name, 'latin1').toString('utf8'): the bytes decoded as UTF-8;
\* a byte that starts no complete sequence decodes to U+FFFD.
RECURSIVE Latin1ToUtf8(_)
Latin1ToUtf8(s) ==
    IF s = <<>> THEN <<>>
    ELSE IF Len(s) >= 2 /\ s[1] = "xC3" /\ s[2] = "xA9"
         THEN <<"U+00E9">> \o Latin1ToUtf8(SubSeq(s, 3, Len(s)))
    ELSE IF Len(s) >= 3 /\ s[1] = "xE6" /\ s[2] = "x96" /\ s[3] = "x87"
         THEN <<"U+6587">> \o Latin1ToUtf8(SubSeq(s, 4, Len(s)))
    ELSE IF s[1] \in {"xC3", "xA9", "xE6", "x96", "x87"}
         THEN <<"U+FFFD">> \o Latin1ToUtf8(Tail(s))
    ELSE <<s[1]>> \o Latin1ToUtf8(Tail(s))

\* The length of the longest prefix of s made of digits.
RECURSIVE LeadingDigits(_)
LeadingDigits(s) ==
    IF s # <<>> /\ IsDigit(s[1]) THEN 1 + LeadingDigits(Tail(s)) ELSE 0

\* filename.replace(/^\d+-/, '')
StripPrefix(s) ==
    LET k == LeadingDigits(s)
    IN  IF k >= 1 /\ Len(s) > k /\ s[k + 1] = "-"
        THEN SubSeq(s, k + 2, Len(s))
        ELSE s

\* multer's filename callback: `${timestamp}-${originalName}`
DiskFilename(timestamp, originalname) ==
    Digits(timestamp) \o <<"-">> \o Latin1ToUtf8(originalname)

\* `/api/download/${file.filename}`
DownloadPath(filename) == <<"/api/download/">> \o filename

\* What a request for that URL hands the route as req.params.filename: the
\* URL ends at the first '#' (the fragment is never sent), the route takes
\* the one segment after /api/download/.  <<>> when the route does not match.
RECURSIVE UntilHash(_)
UntilHash(s) ==
    IF s = <<>> \/ s[1] = "#" THEN <<>> ELSE <<s[1]>> \o UntilHash(Tail(s))

RouteParam(url) ==
    IF url # <<>> /\ url[1] = "/api/download/" THEN UntilHash(Tail(url)) ELSE <<>>

\* The file names the model uploads (file.originalname as multer gives it):
\* a plain name, a name that itself starts with digits and '-', a name with
\* a '#', and a name of one CJK character sent as its three UTF-8 bytes.
OriginalNames ==
    { <<"a">>, <<"1", "-", "a">>, <<"a", "#">>, <<"xE6", "x96", "x87">> }

Bytes == {"b1", "b2"}

\* A number of bytes, written gib * 1024^3 + rest with rest < 1024^3 (the
\* sizes at stake do not fit the model checker's 32-bit integers; a
\* JavaScript number holds them exactly).
ByteCount(gib, rest) == [gib |-> gib, rest |-> rest]

\* a <= b on byte counts
AtMost(a, b) == a.gib < b.gib \/ (a.gib = b.gib /\ a.rest <= b.rest)

\* limits.fileSize: 25 * 1024 * 1024 * 1024
FILE_SIZE_LIMIT == ByteCount(25, 0)

\* A content larger than the limit.
Oversized == {"b3"}

\* file.size: b1 is exactly as large as the limit allows, b2 is one byte,
\* b3 is one byte too large.
SizeOf(bytes) ==
    IF bytes = "b1" THEN FILE_SIZE_LIMIT
    ELSE IF bytes = "b2" THEN ByteCount(0, 1)
    ELSE ByteCount(FILE_SIZE_LIMIT.gib, FILE_SIZE_LIMIT.rest + 1)

\* multer ends the request with LIMIT_FILE_SIZE when a file has more bytes
\* than limits.fileSize.
WithinLimit(size) == AtMost(size, FILE_SIZE_LIMIT)

\* :filename values that are no stored name: a name never uploaded, the
\* parent directory, and the messages file next to the uploads directory.
DotDot == <<".", ".">>
DotDotMessages == <<".", ".", "/", "messages.json">>
OtherParams == { <<"z">>, DotDot, DotDotMessages }

\* path.join(UPLOADS_DIR, filename): what the joined path names.
Resolve(filename) ==
    IF filename = DotDot THEN [kind |-> "appdir", name |-> <<>>]
    ELSE IF filename = DotDotMessages THEN [kind |-> "messages", name |-> <<>>]
    ELSE [kind |-> "upload", name |-> filename]

\* fs.existsSync(filePath)
ExistsSync(loc, dir, file) ==
    IF loc.kind = "appdir" THEN TRUE
    ELSE IF loc.kind = "messages" THEN file.state # "missing"
    ELSE loc.name \in DOMAIN dir

\* res.setHeader refuses a value with a character above U+00FF.
HeaderValueOk(s) == \A i \in 1..Len(s) : s[i] \notin {"U+6587", "U+FFFD"}

NoResponse ==
    [op |-> "none", param |-> <<>>, status |-> 0, success |-> FALSE,
     body |-> "none", disposition |-> <<>>, files |-> <<>>]

\* app.delete('/api/files/:filename'): the response.
DeleteResponse(filename, dir, file) ==
    LET loc == Resolve(filename)
    IN  IF ExistsSync(loc, dir, file) /\ loc.kind = "appdir"
        THEN \* unlinkSync of a directory throws; the catch answers 500
             [NoResponse EXCEPT !.op = "delete", !.param = filename,
                                !.status = 500, !.success = FALSE]
        ELSE [NoResponse EXCEPT !.op = "delete", !.param = filename,
                                !.status = 200, !.success = TRUE]

DeleteFromDirEverything(filename, dir) ==
    LET loc == Resolve(filename)
    IN  IF loc.kind = "upload" /\ loc.name \in DOMAIN dir
        THEN [f \in {} |-> dir[f]]
        ELSE dir

\* app.delete('/api/files/:filename'): the uploads directory afterwards.
DeleteFromDir(filename, dir) ==
    LET loc == Resolve(filename)
    IN  IF loc.kind = "upload" /\ loc.name \in DOMAIN dir
        THEN [f \in DOMAIN dir \ {loc.name} |-> dir[f]]
        ELSE dir

\* app.delete('/api/files/:filename'): messages.json afterwards.
DeleteFromApp(filename, file) ==
    IF Resolve(filename).kind = "messages" /\ file.state # "missing"
    THEN Missing ELSE file

\* app.get('/api/download/:filename'): the response.
DownloadResponse(filename, dir, file) ==
    LET loc == Resolve(filename)
        originalName == StripPrefix(filename)
        base == [NoResponse EXCEPT !.op = "download", !.param = filename]
    IN  IF ~ExistsSync(loc, dir, file)
        THEN [base EXCEPT !.status = 404]
        ELSE IF ~HeaderValueOk(originalName)
        THEN \* setHeader throws, express answers 500
             [base EXCEPT !.status = 500]
        ELSE IF loc.kind = "appdir"
        THEN \* sendFile of a directory hands the request to the next
             \* matching route, app.get('*'), which sends dist/index.html
             [base EXCEPT !.status = 200, !.disposition = originalName,
                          !.body = "index.html"]
        ELSE IF loc.kind = "messages"
        THEN [base EXCEPT !.status = 200, !.disposition = originalName,
                          !.body = "messages.json"]
        ELSE [base EXCEPT !.status = 200, !.disposition = originalName,
                          !.body = dir[loc.name]]

\* fs.readdirSync(UPLOADS_DIR): every entry of the directory once, in the
\* order the file system gives them.
RECURSIVE ReadDirSync(_)
ReadDirSync(names) ==
    IF names = {} THEN <<>>
    ELSE LET f == CHOOSE g \in names : TRUE
         IN  <<f>> \o ReadDirSync(names \ {f})

ListRecordWithDiskName(filename) ==
    [name |-> filename,
     filename |-> filename,
     path |-> DownloadPath(filename)]

\* The record app.get('/api/files') builds for one directory entry.
ListRecord(filename) ==
    [name |-> StripPrefix(filename),
     filename |-> filename,
     path |-> DownloadPath(filename)]

\* app.get('/api/files'): readdirSync(...).map(...)
ListFiles(dir) ==
    LET entries == ReadDirSync(DOMAIN dir)
    IN  [i \in 1..Len(entries) |-> ListRecord(entries[i])]

\* The descriptor app.post('/api/upload') returns for one stored file.
Descriptor(originalname, filename, size) ==
    [name |-> Latin1ToUtf8(originalname),
     size |-> size,
     filename |-> filename,
     path |-> DownloadPath(filename)]

\* multer's disk storage writes the file under its disk filename.
StoreFile(dir, filename, bytes) ==
    [f \in DOMAIN dir \cup {filename} |-> IF f = filename THEN bytes ELSE dir[f]]

EmptyDir == [f \in {} |-> "b1"]

InitFiles ==
    /\ now = StartTime
    /\ uploadsDir = EmptyDir
    /\ resp = NoResponse
    /\ dirBefore = EmptyDir
    /\ descriptors = <<>>
    /\ assigned = <<>>
    /\ lastUpload = <<>>

\* A millisecond passes (the model looks at two consecutive milliseconds).
Tick ==
    /\ now = StartTime
    /\ now' = now + 1
    /\ UNCHANGED <<chatVars, fileVars, metricVars, clientVars, panelVars, uptimeVars>>

\* The multipart requests the model sends: one file, or two files.
UploadedFiles == [originalname : OriginalNames, bytes : Bytes \cup Oversized]

UploadRequests ==
    {<<f>> : f \in UploadedFiles} \cup {<<f, g>> : f, g \in UploadedFiles}

\* The disk filenames the files of one request get, all within millisecond t.
DiskFilenames(files, t) ==
    [i \in 1..Len(files) |-> DiskFilename(t, files[i].originalname)]

\* The uploads directory after multer stored the files, in order.
RECURSIVE StoreAll(_, _, _)
StoreAll(dir, files, t) ==
    IF files = <<>> THEN dir
    ELSE StoreAll(StoreFile(dir, DiskFilename(t, files[1].originalname),
                            files[1].bytes),
                  Tail(files), t)

\* The index of the first file of the request that is over the size
\* limit, 0 when there is none.
RECURSIVE FirstOversized(_, _)
FirstOversized(files, i) ==
    IF i > Len(files) THEN 0
    ELSE IF ~WithinLimit(SizeOf(files[i].bytes)) THEN i
    ELSE FirstOversized(files, i + 1)

\* multer's removeUploadedFiles: the files of the aborted request are
\* unlinked by name.
RemoveFiles(dir, names) ==
    [f \in DOMAIN dir \ {names[i] : i \in 1..Len(names)} |-> dir[f]]

\* POST /api/upload: multer names and stores the files of the request in
\* order.  When all are within the size limit the route answers with one
\* descriptor per file.  At the first file over the limit multer stops,
\* unlinks what the request stored so far and passes the error on: the
\* route does not run and the request ends with status 500.
Upload(files) ==
    /\ Len(assigned) + Len(files) <= MaxUploads
    /\ LET k == FirstOversized(files, 1)
           handled == IF k = 0 THEN files ELSE SubSeq(files, 1, k)
           names == DiskFilenames(handled, now)
           stored == StoreAll(uploadsDir, handled, now)
           after == IF k = 0 THEN stored ELSE RemoveFiles(stored, names)
       IN  /\ uploadsDir' = after
           /\ assigned' = assigned \o names
           /\ descriptors' =
                 SelectSeq(descriptors, LAMBDA d : d.filename \in DOMAIN after)
                 \o (IF k # 0 THEN <<>>
                     ELSE [i \in 1..Len(files) |->
                             [name |-> Descriptor(files[i].originalname, names[i],
                                                  SizeOf(files[i].bytes)).name,
                              filename |-> names[i],
                              path |-> Descriptor(files[i].originalname, names[i],
                                                  SizeOf(files[i].bytes)).path,
                              bytes |-> files[i].bytes]])
           /\ resp' = IF k # 0
                      THEN [NoResponse EXCEPT !.op = "upload", !.status = 500]
                      ELSE [NoResponse EXCEPT
                              !.op = "upload", !.status = 200, !.success = TRUE,
                              !.files = [i \in 1..Len(files) |->
                                           Descriptor(files[i].originalname, names[i],
                                                      SizeOf(files[i].bytes))]]
    /\ dirBefore' = uploadsDir
    /\ lastUpload' = files
    /\ UNCHANGED <<now, chatVars, metricVars, clientVars, panelVars, uptimeVars>>

\* GET of a URL under /api/download/.
Download(url) ==
    /\ RouteParam(url) # <<>>
    /\ resp' = DownloadResponse(RouteParam(url), uploadsDir, fileContent)
    /\ dirBefore' = uploadsDir
    /\ UNCHANGED <<now, uploadsDir, descriptors, assigned, lastUpload>>
    /\ UNCHANGED <<chatVars, metricVars, clientVars, panelVars, uptimeVars>>

\* DELETE /api/files/:filename.
Delete(filename) ==
    /\ resp' = DeleteResponse(filename, uploadsDir, fileContent)
    /\ uploadsDir' = DeleteFromDir(filename, uploadsDir)
    /\ fileContent' = DeleteFromApp(filename, fileContent)
    /\ dirBefore' = uploadsDir
    /\ descriptors' = SelectSeq(descriptors,
                         LAMBDA d : d.filename \in DOMAIN DeleteFromDir(filename, uploadsDir))
    /\ UNCHANGED <<now, assigned, lastUpload, metricVars, clientVars, panelVars, uptimeVars>>
    /\ UNCHANGED <<chatBuild, up, messages, connState, sent, delivered, view,
                   pendingWrites, started, log, fromEmpty, nFrames, lastFrame,
                   nMut, listAtConnect, applied>>

\* GET /api/files.
List ==
    /\ resp' = [NoResponse EXCEPT !.op = "list", !.status = 200,
                                  !.files = ListFiles(uploadsDir)]
    /\ dirBefore' = uploadsDir
    /\ UNCHANGED <<now, uploadsDir, descriptors, assigned, lastUpload>>
    /\ UNCHANGED <<chatVars, metricVars, clientVars, panelVars, uptimeVars>>

\* The :filename values and URLs a client may ask for.
Params == DOMAIN uploadsDir \cup OtherParams

Urls == {DownloadPath(f) : f \in Params} \cup
        {descriptors[i].path : i \in 1..Len(descriptors)}

NextFiles ==
    \/ Tick
    \/ \E files \in UploadRequests : Upload(files)
    \/ \E u \in Urls : Download(u)
    \/ \E f \in Params : Delete(f)
    \/ List

----------------------------------------------------------------------------
(* The system-info cache: server.js:94-97, 157-242 and server/index.js:17-20, 67-145 *)

CACHE_DURATION == 2000

MetricsBuilds == {"server", "index"}

ReqIds == {"r1", "r2", "r3"}

\* What the OS queries may report, and what Math.random() may simulate.
Readings == {"load1", "load2"}
Simulated == {"rand1", "rand2"}

\* The keys of a snapshot object.
SnapshotFields ==
    {"ipAddress", "cpuUsage", "memoryUsage", "diskUsage", "temperature",
     "uptime", "timestamp"}

\* The snapshot built from the OS queries (timestamp: now).
FreshPayload(reading, t) ==
    [values |-> reading, timestamp |-> t, fields |-> SnapshotFields]

FallbackPayloadWithoutError(random, t) ==
    [values |-> random, timestamp |-> t, fields |-> SnapshotFields]

\* The fallback snapshot of the catch block (timestamp: now, and an error key).
FallbackPayload(random, t) ==
    [values |-> random, timestamp |-> t, fields |-> SnapshotFields \cup {"error"}]

NoPayload == [values |-> "none", timestamp |-> 0, fields |-> {}]

\* app.get('/api/system-info'): res.json(systemInfo) when getSystemInfo()
\* resolves, status 500 when it rejects.
RouteStatus(rejected) == IF rejected THEN 500 ELSE 200

\* A request not yet made.
IdleRequest ==
    [pc |-> "idle", start |-> 0, payload |-> NoPayload, via |-> "none",
     status |-> 0, seen |-> 0, hadCache |-> FALSE]

CacheIsFreshInclusive(cache, last, t) ==
    cache # <<>> /\ (t - last) <= CACHE_DURATION

\* if (systemInfoCache && (now - lastUpdate) < CACHE_DURATION)
CacheIsFresh(cache, last, t) == cache # <<>> /\ (t - last) < CACHE_DURATION

\* The catch block: server.js stores the fallback in the cache and sets
\* lastUpdate; server/index.js returns it and leaves both alone.
CacheAfterFallback(build, cache, payload) ==
    IF build = "server" THEN <<payload>> ELSE cache

LastUpdateAfterFallback(build, last, t) ==
    IF build = "server" THEN t ELSE last

InitMetrics(builds) ==
    /\ metricsBuild \in builds
    /\ systemInfoCache = <<>>
    /\ lastUpdate = 0
    /\ reqs = [r \in ReqIds |-> IdleRequest]

\* The instants the model looks at: just after the start, and just before,
\* at and just after one cache duration, and two durations on.
Instants ==
    {StartTime + d : d \in {0, 1, CACHE_DURATION - 1, CACHE_DURATION,
                            CACHE_DURATION + 1, 2 * CACHE_DURATION}}

\* Time passes between and during the requests.
Elapse(t) ==
    /\ t > now
    /\ now' = t
    /\ UNCHANGED <<chatVars, fileVars, metricVars, clientVars, panelVars, uptimeVars>>

\* GET /api/system-info: getSystemInfo() up to its first await.  A fresh
\* cache is returned at once; otherwise the OS queries are awaited.
GetSystemInfoStart(r) ==
    /\ reqs[r].pc = "idle"
    /\ reqs' = [reqs EXCEPT ![r] =
                 IF CacheIsFresh(systemInfoCache, lastUpdate, now)
                 THEN [IdleRequest EXCEPT !.pc = "done", !.start = now,
                                          !.payload = systemInfoCache[1],
                                          !.via = "cache",
                                          !.status = RouteStatus(FALSE),
                                          !.seen = lastUpdate,
                                          !.hadCache = TRUE]
                 ELSE [IdleRequest EXCEPT !.pc = "awaiting", !.start = now,
                                          !.seen = lastUpdate,
                                          !.hadCache = (systemInfoCache # <<>>)]]
    /\ UNCHANGED <<metricsBuild, systemInfoCache, lastUpdate>>
    /\ UNCHANGED <<now, chatVars, fileVars, clientVars, panelVars, uptimeVars>>

\* The OS queries resolve: the snapshot is cached under the now the request
\* read when it started, and returned.
GetSystemInfoResolve(r, reading) ==
    /\ reqs[r].pc = "awaiting"
    /\ LET payload == FreshPayload(reading, reqs[r].start)
       IN  /\ systemInfoCache' = <<payload>>
           /\ lastUpdate' = reqs[r].start
           /\ reqs' = [reqs EXCEPT ![r].pc = "done", ![r].payload = payload,
                                    ![r].via = "queries",
                                    ![r].status = RouteStatus(FALSE)]
    /\ UNCHANGED metricsBuild
    /\ UNCHANGED <<now, chatVars, fileVars, clientVars, panelVars, uptimeVars>>

\* An OS query rejects: the catch block answers with simulated values.
GetSystemInfoReject(r, random) ==
    /\ reqs[r].pc = "awaiting"
    /\ LET payload == FallbackPayload(random, reqs[r].start)
       IN  /\ systemInfoCache' = CacheAfterFallback(metricsBuild, systemInfoCache, payload)
           /\ lastUpdate' = LastUpdateAfterFallback(metricsBuild, lastUpdate, reqs[r].start)
           /\ reqs' = [reqs EXCEPT ![r].pc = "done", ![r].payload = payload,
                                    ![r].via = "fallback",
                                    ![r].status = RouteStatus(FALSE)]
    /\ UNCHANGED metricsBuild
    /\ UNCHANGED <<now, chatVars, fileVars, clientVars, panelVars, uptimeVars>>

NextMetrics ==
    \/ \E t \in Instants : Elapse(t)
    \/ \E r \in ReqIds : GetSystemInfoStart(r)
    \/ \E r \in ReqIds : \E v \in Readings : GetSystemInfoResolve(r, v)
    \/ \E r \in ReqIds : \E v \in Simulated : GetSystemInfoReject(r, v)

----------------------------------------------------------------------------
(* The web client: App (FileUpload.tsx:1402-1412) and the connection of
   MessageSystem (FileUpload.tsx:1068-1150) *)

\* setTimeout(..., 3000) in ws.onclose
RECONNECT_DELAY == 3000

\* What localStorage may hold under 'theme' when the page is first opened.
StoredValues == {"none", "dark", "light", "other"}

InitialIsDarkUnlessLight(saved) == saved # "light"

\* useState(() => localStorage.getItem('theme') === 'dark')
InitialIsDark(saved) == saved = "dark"

\* isDark ? 'dark' : 'light'
ThemeName(dark) == IF dark THEN "dark" ELSE "light"

NoTimer == [ref |-> FALSE, armed |-> FALSE, due |-> 0]

ArmReconnectNever(t) == NoTimer

\* reconnectTimeoutRef.current = setTimeout(..., 3000), at time t
ArmReconnect(t) == [ref |-> TRUE, armed |-> TRUE, due |-> t + RECONNECT_DELAY]

\* if (reconnectTimeoutRef.current) { clearTimeout(...); ... = null }
ClearReconnect(tm) == IF tm.ref THEN NoTimer ELSE tm

\* connectWebSocket(): new WebSocket(wsUrl); wsRef.current = ws
ConnectWebSocket(socks) == Append(socks, "CONNECTING")

\* setConnectionStatus(value): a state update of an unmounted component
\* is dropped.
SetConnectionStatus(mounted, status, value) ==
    IF mounted THEN value ELSE status

\* WebSocket.close(): starts the closing handshake of a socket that is
\* connecting or open, does nothing to one that is closing or closed.
CloseSocket(state) ==
    IF state \in {"CONNECTING", "OPEN"} THEN "CLOSING" ELSE state

\* The page is opened: App initialises isDark from localStorage and its
\* effect stores the theme; MessageSystem mounts and its effect connects.
InitClient(stored) ==
    /\ storedAtLoad \in stored
    /\ isDark = InitialIsDark(storedAtLoad)
    /\ storedTheme = ThemeName(isDark)
    /\ shownBeforeLoad = "none"
    /\ darkAtLoad = isDark
    /\ toggles = 0
    /\ msMounted = TRUE
    /\ connectionStatus = "connecting"
    /\ sockets = ConnectWebSocket(<<>>)
    /\ timer = NoTimer
    /\ socketMade = <<[at |-> StartTime, by |-> "mount"]>>
    /\ closedAt = <<0>>

\* toggleTheme, then the effect on [isDark] stores the new theme.
ToggleTheme ==
    /\ toggles < MaxToggles
    /\ isDark' = ~isDark
    /\ storedTheme' = ThemeName(~isDark)
    /\ toggles' = toggles + 1
    /\ UNCHANGED <<storedAtLoad, shownBeforeLoad, darkAtLoad, msMounted,
                   connectionStatus, sockets, timer, socketMade, closedAt>>
    /\ UNCHANGED <<now, chatVars, fileVars, metricVars, panelVars, uptimeVars>>

\* The sockets of a page that is gone: all closed, no handler runs.
RECURSIVE Discard(_)
Discard(socks) ==
    IF socks = <<>> THEN <<>> ELSE <<"CLOSED">> \o Discard(Tail(socks))

\* The page is reloaded: the old page with its sockets and timers is gone,
\* the new one starts as in InitClient, from what localStorage holds.
Reload ==
    /\ Len(sockets) < MaxSockets
    /\ storedAtLoad' = storedTheme
    /\ isDark' = InitialIsDark(storedTheme)
    /\ storedTheme' = ThemeName(InitialIsDark(storedTheme))
    /\ shownBeforeLoad' = ThemeName(isDark)
    /\ darkAtLoad' = InitialIsDark(storedTheme)
    /\ toggles' = 0
    /\ msMounted' = TRUE
    /\ connectionStatus' = "connecting"
    /\ sockets' = ConnectWebSocket(Discard(sockets))
    /\ timer' = NoTimer
    /\ socketMade' = Append(socketMade, [at |-> now, by |-> "mount"])
    /\ closedAt' = Append(closedAt, 0)
    /\ UNCHANGED <<now, chatVars, fileVars, metricVars, panelVars, uptimeVars>>

\* ws.onopen of socket i.
SocketOpens(i) ==
    /\ i \in 1..Len(sockets)
    /\ sockets[i] = "CONNECTING"
    /\ sockets' = [sockets EXCEPT ![i] = "OPEN"]
    /\ connectionStatus' = SetConnectionStatus(msMounted, connectionStatus, "connected")
    /\ timer' = ClearReconnect(timer)
    /\ UNCHANGED <<isDark, storedTheme, storedAtLoad, shownBeforeLoad,
                   darkAtLoad, toggles, msMounted, socketMade, closedAt>>
    /\ UNCHANGED <<now, chatVars, fileVars, metricVars, panelVars, uptimeVars>>

\* The server starts the closing handshake of socket i: the socket is
\* CLOSING until the connection is gone; no handler runs.
ServerStartsClose(i) ==
    /\ i \in 1..Len(sockets)
    /\ sockets[i] = "OPEN"
    /\ sockets' = [sockets EXCEPT ![i] = "CLOSING"]
    /\ UNCHANGED <<isDark, storedTheme, storedAtLoad, shownBeforeLoad,
                   darkAtLoad, toggles, msMounted, connectionStatus, timer,
                   socketMade, closedAt>>
    /\ UNCHANGED <<now, chatVars, fileVars, metricVars, panelVars, uptimeVars>>

\* Socket i is closed (the connection failed, was lost, or its closing
\* handshake ended): ws.onerror where it applies, then ws.onclose, which
\* arms the reconnect timeout.
SocketCloses(i) ==
    /\ i \in 1..Len(sockets)
    /\ sockets[i] # "CLOSED"
    /\ sockets' = [sockets EXCEPT ![i] = "CLOSED"]
    /\ connectionStatus' = SetConnectionStatus(msMounted, connectionStatus, "disconnected")
    /\ timer' = ArmReconnect(now)
    /\ closedAt' = [closedAt EXCEPT ![i] = now]
    /\ UNCHANGED <<isDark, storedTheme, storedAtLoad, shownBeforeLoad,
                   darkAtLoad, toggles, msMounted, socketMade>>
    /\ UNCHANGED <<now, chatVars, fileVars, metricVars, panelVars, uptimeVars>>

\* Time passes while a reconnect timeout is armed.
ClientElapse(t) ==
    /\ timer.armed
    /\ t \in {timer.due - 1, timer.due}
    /\ t > now
    /\ now' = t
    /\ UNCHANGED <<chatVars, fileVars, metricVars, clientVars, panelVars, uptimeVars>>

\* The reconnect timeout fires: setConnectionStatus('connecting');
\* connectWebSocket().
ReconnectTimerFires ==
    /\ timer.armed
    /\ now >= timer.due
    /\ Len(sockets) < MaxSockets
    /\ timer' = [timer EXCEPT !.armed = FALSE]
    /\ connectionStatus' = SetConnectionStatus(msMounted, connectionStatus, "connecting")
    /\ sockets' = ConnectWebSocket(sockets)
    /\ socketMade' = Append(socketMade, [at |-> now, by |-> "timeout"])
    /\ closedAt' = Append(closedAt, 0)
    /\ UNCHANGED <<isDark, storedTheme, storedAtLoad, shownBeforeLoad,
                   darkAtLoad, toggles, msMounted>>
    /\ UNCHANGED <<now, chatVars, fileVars, metricVars, panelVars, uptimeVars>>

\* MessageSystem unmounts: the effect's cleanup closes wsRef.current and
\* clears the timeout reconnectTimeoutRef names.
Unmount ==
    /\ msMounted
    /\ msMounted' = FALSE
    /\ sockets' = [sockets EXCEPT ![Len(sockets)] = CloseSocket(sockets[Len(sockets)])]
    /\ timer' = IF timer.ref THEN [timer EXCEPT !.armed = FALSE] ELSE timer
    /\ UNCHANGED <<isDark, storedTheme, storedAtLoad, shownBeforeLoad,
                   darkAtLoad, toggles, connectionStatus, socketMade, closedAt>>
    /\ UNCHANGED <<now, chatVars, fileVars, metricVars, panelVars, uptimeVars>>

NextClient ==
    \/ ToggleTheme
    \/ Reload
    \/ \E i \in 1..MaxSockets : SocketOpens(i)
    \/ \E i \in 1..MaxSockets : ServerStartsClose(i)
    \/ \E i \in 1..MaxSockets : SocketCloses(i)
    \/ \E t \in {timer.due - 1, timer.due} : ClientElapse(t)
    \/ ReconnectTimerFires
    \/ Unmount

----------------------------------------------------------------------------
(* The panels of the web client: uploadFiles and loadFiles of FileUpload
   (FileUpload.tsx:63-111) and fetchSystemInfo of SystemStatus
   (SystemStatus.tsx:20-65) *)

\* How a fetch may settle: a response with response.ok, a response
\* without, or a rejected promise (network failure).
FetchOutcomes == {"ok", "notok", "network"}

\* How the upload request may settle: as a fetch, and a response that is
\* ok with a body whose success is false.
UploadOutcomes == FetchOutcomes \cup {"unsuccessful"}

UploadBranchWithoutReload(outcome) ==
    IF outcome = "ok" THEN "success" ELSE "error"

\* uploadFiles after the upload request settled: reload the list and then
\* notify success, or notify the error.
UploadBranch(outcome) ==
    IF outcome = "ok" THEN "reload" ELSE "error"

\* loadFiles(): setFiles(serverFiles) when the response is ok, nothing
\* otherwise (the catch only logs).
LoadFiles(outcome, shown, listed) ==
    IF outcome = "ok" THEN listed ELSE shown

\* The payloads /api/system-info may answer, and the initial systemInfo.
StatusPayloads == {"load1", "load2", "simulated"}

InitialSystemInfo == "initial"

SystemInfoResetOnFailure(outcome, old, data) ==
    IF outcome = "ok" THEN data ELSE InitialSystemInfo

\* fetchSystemInfo: setSystemInfo(data) on an ok response, the last known
\* values are kept otherwise.
SystemInfoAfter(outcome, old, data) ==
    IF outcome = "ok" THEN data ELSE old

\* setError(data.error || null) on an ok response, the message of the
\* error otherwise.
StatusErrorAfter(outcome, data) ==
    IF outcome = "ok"
    THEN (IF data = "simulated" THEN "simulated" ELSE "none")
    ELSE outcome

\* Both panels just mounted: the mount effects have called loadFiles() and
\* fetchSystemInfo(), and neither request has settled.
InitPanels ==
    /\ uploading = FALSE
    /\ shownFiles = 0
    /\ serverFiles = 0
    /\ notification = "none"
    /\ upPc = "idle"
    /\ mountLoad = "pending"
    /\ uploadsStarted = 0
    /\ upOutcome = "none"
    /\ systemInfo = InitialSystemInfo
    /\ isLoading = TRUE
    /\ isOnline = FALSE
    /\ statusError = "none"
    /\ inFlight = 1
    /\ fetchesMade = 1
    /\ settled = 0
    /\ fetchOutcome = "none"
    /\ fetchData = "none"

\* The loadFiles() of the mount effect settles; its answer lists the files
\* the server had when it handled the request, which may be before an
\* upload that has since been stored.
MountLoadSettles(outcome) ==
    /\ mountLoad = "pending"
    /\ mountLoad' = "done"
    /\ \E listed \in 0..serverFiles :
          shownFiles' = LoadFiles(outcome, shownFiles, listed)
    /\ UNCHANGED <<uploading, serverFiles, notification, upPc, uploadsStarted,
                   upOutcome, systemInfo, isLoading, isOnline, statusError,
                   inFlight, fetchesMade, settled, fetchOutcome, fetchData>>
    /\ UNCHANGED <<now, chatVars, fileVars, metricVars, clientVars, uptimeVars>>

\* uploadFiles(fileList) up to its first await; the drop zone and the
\* button are disabled while uploading is true.
StartUpload ==
    /\ ~uploading
    /\ upPc = "idle"
    /\ uploadsStarted < MaxClientUploads
    /\ uploading' = TRUE
    /\ upPc' = "upload"
    /\ uploadsStarted' = uploadsStarted + 1
    /\ UNCHANGED <<shownFiles, serverFiles, notification, mountLoad, upOutcome,
                   systemInfo, isLoading, isOnline, statusError, inFlight,
                   fetchesMade, settled, fetchOutcome, fetchData>>
    /\ UNCHANGED <<now, chatVars, fileVars, metricVars, clientVars, uptimeVars>>

\* The upload request settles.  On success the server has stored the file
\* and uploadFiles goes on to await loadFiles(); otherwise it notifies the
\* error and its finally block runs.
UploadSettles(outcome) ==
    /\ upPc = "upload"
    /\ upOutcome' = outcome
    /\ serverFiles' = IF outcome = "ok" THEN serverFiles + 1 ELSE serverFiles
    /\ LET branch == UploadBranch(outcome)
       IN  /\ upPc' = IF branch = "reload" THEN "reload" ELSE "idle"
           /\ notification' = IF branch = "reload" THEN notification ELSE branch
           /\ uploading' = (branch = "reload")
    /\ UNCHANGED <<shownFiles, mountLoad, uploadsStarted, systemInfo, isLoading,
                   isOnline, statusError, inFlight, fetchesMade, settled,
                   fetchOutcome, fetchData>>
    /\ UNCHANGED <<now, chatVars, fileVars, metricVars, clientVars, uptimeVars>>

\* The loadFiles() awaited by uploadFiles settles: the success
\* notification is shown and the finally block runs.
ReloadSettles(outcome) ==
    /\ upPc = "reload"
    /\ shownFiles' = LoadFiles(outcome, shownFiles, serverFiles)
    /\ notification' = "success"
    /\ uploading' = FALSE
    /\ upPc' = "idle"
    /\ UNCHANGED <<serverFiles, mountLoad, uploadsStarted, upOutcome, systemInfo,
                   isLoading, isOnline, statusError, inFlight, fetchesMade,
                   settled, fetchOutcome, fetchData>>
    /\ UNCHANGED <<now, chatVars, fileVars, metricVars, clientVars, uptimeVars>>

\* setTimeout(() => setNotification(null), 5000)
NotificationExpires ==
    /\ notification # "none"
    /\ notification' = "none"
    /\ UNCHANGED <<uploading, shownFiles, serverFiles, upPc, mountLoad,
                   uploadsStarted, upOutcome, systemInfo, isLoading, isOnline,
                   statusError, inFlight, fetchesMade, settled, fetchOutcome,
                   fetchData>>
    /\ UNCHANGED <<now, chatVars, fileVars, metricVars, clientVars, uptimeVars>>

\* setInterval(fetchSystemInfo, 3000): one more fetch is started, whether
\* or not the earlier ones have settled.
PollSystemInfo ==
    /\ fetchesMade < MaxFetches
    /\ fetchesMade' = fetchesMade + 1
    /\ inFlight' = inFlight + 1
    /\ UNCHANGED <<uploading, shownFiles, serverFiles, notification, upPc,
                   mountLoad, uploadsStarted, upOutcome, systemInfo, isLoading,
                   isOnline, statusError, settled, fetchOutcome, fetchData>>
    /\ UNCHANGED <<now, chatVars, fileVars, metricVars, clientVars, uptimeVars>>

\* One fetch of /api/system-info settles: the try, catch and finally of
\* fetchSystemInfo.
FetchSettles(outcome, data) ==
    /\ inFlight > 0
    /\ inFlight' = inFlight - 1
    /\ settled' = settled + 1
    /\ fetchOutcome' = outcome
    /\ fetchData' = IF outcome = "ok" THEN data ELSE "none"
    /\ systemInfo' = SystemInfoAfter(outcome, systemInfo, data)
    /\ isOnline' = (outcome = "ok")
    /\ statusError' = StatusErrorAfter(outcome, data)
    /\ isLoading' = FALSE
    /\ UNCHANGED <<uploading, shownFiles, serverFiles, notification, upPc,
                   mountLoad, uploadsStarted, upOutcome, fetchesMade>>
    /\ UNCHANGED <<now, chatVars, fileVars, metricVars, clientVars, uptimeVars>>

NextPanels ==
    \/ \E o \in FetchOutcomes : MountLoadSettles(o)
    \/ StartUpload
    \/ \E o \in UploadOutcomes : UploadSettles(o)
    \/ \E o \in FetchOutcomes : ReloadSettles(o)
    \/ NotificationExpires
    \/ PollSystemInfo
    \/ \E o \in FetchOutcomes : \E d \in StatusPayloads : FetchSettles(o, d)

----------------------------------------------------------------------------
(* formatUptime (server.js:118-130, server/index.js:35-47); a text is the
   sequence of its characters *)

RECURSIVE TrimStart(_)
TrimStart(text) ==
    IF text # <<>> /\ Head(text) = " " THEN TrimStart(Tail(text)) ELSE text

RECURSIVE TrimEnd(_)
TrimEnd(text) ==
    IF text # <<>> /\ text[Len(text)] = " "
    THEN TrimEnd(SubSeq(text, 1, Len(text) - 1))
    ELSE text

\* String.prototype.trim()
Trim(text) == TrimEnd(TrimStart(text))

formatUptimeAlwaysHours(seconds) ==
    LET days == seconds \div 86400
        hours == (seconds % 86400) \div 3600
        minutes == (seconds % 3600) \div 60
        r1 == IF days > 0 THEN Digits(days) \o <<"d", " ">> ELSE <<>>
        r2 == r1 \o Digits(hours) \o <<"h", " ">>
        r3 == r2 \o Digits(minutes) \o <<"m">>
    IN  Trim(r3)

formatUptime(seconds) ==
    LET days == seconds \div 86400
        hours == (seconds % 86400) \div 3600
        minutes == (seconds % 3600) \div 60
        r1 == IF days > 0 THEN Digits(days) \o <<"d", " ">> ELSE <<>>
        r2 == IF hours > 0 THEN r1 \o Digits(hours) \o <<"h", " ">> ELSE r1
        r3 == r2 \o Digits(minutes) \o <<"m">>
    IN  Trim(r3)

\* Uptimes the host may have when the server starts: each two seconds short
\* of a minute, an hour or a day.
StartUptimes == {0, 58, 3598, 86398, 89998, 172798, 8639998}

InitUptime(starts) ==
    /\ osUptime \in starts
    /\ uptimeTicks = 0
    /\ uptime = <<>>
    /\ uptimeOf = -1

\* One second passes.
UptimeTick ==
    /\ uptimeTicks < MaxUptimeTicks
    /\ uptimeTicks' = uptimeTicks + 1
    /\ osUptime' = osUptime + 1
    /\ UNCHANGED <<uptime, uptimeOf>>
    /\ UNCHANGED <<now, chatVars, fileVars, metricVars, clientVars, panelVars>>

\* getSystemInfo(): uptime: formatUptime(os.uptime())
FormatUptime ==
    /\ uptime' = formatUptime(osUptime)
    /\ uptimeOf' = osUptime
    /\ UNCHANGED <<osUptime, uptimeTicks>>
    /\ UNCHANGED <<now, chatVars, fileVars, metricVars, clientVars, panelVars>>

NextUptime ==
    \/ UptimeTick
    \/ FormatUptime

\* The server and its connections: every handler of the relay, the process
\* lifecycle and the completion of the writes.
NextRelay ==
    \/ \E c \in Conns : OnConnection(c)
    \/ \E c \in Conns : OnMessage(c)
    \/ \E c \in Conns : OnClear(c)
    \/ \E c \in Conns : \E kind \in IgnoredKinds : OnIgnoredFrame(c, kind)
    \/ \E c \in Conns : OnNullFrame(c)
    \/ Restart
    \/ \E i \in 1..Len(pendingWrites) : WriteComplete(i)
    \/ \E c \in Conns : ClientClose(c)
    \/ \E c \in Conns : OnClose(c)

\* The running server together with its clients: the frames the server
\* sends are handled by the clients, each at its own pace.
NextSync ==
    \/ \E c \in Conns : OnConnection(c)
    \/ \E c \in Conns : OnMessage(c)
    \/ \E c \in Conns : OnClear(c)
    \/ \E c \in Conns : \E kind \in IgnoredKinds : OnIgnoredFrame(c, kind)
    \/ \E c \in Conns : ClientClose(c)
    \/ \E c \in Conns : OnClose(c)
    \/ \E c \in Conns : Deliver(c)

\* Each specification exercises one part of the server; the revision of
\* the parts it leaves idle is fixed.
Init ==
    /\ InitChat(Builds, {Missing})
    /\ InitFiles
    /\ InitMetrics({"server"})
    /\ InitClient({"none"})
    /\ InitPanels
    /\ InitUptime({0})

\* The file routes, next to a relay whose messages.json may exist already
\* (an empty list, as a clear leaves it).
InitWithFiles ==
    /\ InitChat({"hub"}, {Missing, JsonFile(<<>>)})
    /\ InitFiles
    /\ InitMetrics({"server"})
    /\ InitClient({"none"})
    /\ InitPanels
    /\ InitUptime({0})

InitWithMetrics ==
    /\ InitChat({"hub"}, {Missing})
    /\ InitFiles
    /\ InitMetrics(MetricsBuilds)
    /\ InitClient({"none"})
    /\ InitPanels
    /\ InitUptime({0})

\* The web client, opened with any content of localStorage.
InitWithClient ==
    /\ InitChat({"hub"}, {Missing})
    /\ InitFiles
    /\ InitMetrics({"server"})
    /\ InitClient(StoredValues)
    /\ InitPanels
    /\ InitUptime({0})

Spec == Init /\ [][NextRelay]_vars

SpecSync == Init /\ [][NextSync]_vars

SpecFiles == InitWithFiles /\ [][NextFiles]_vars

SpecMetrics == InitWithMetrics /\ [][NextMetrics]_vars

SpecClient == InitWithClient /\ [][NextClient]_vars

SpecPanels == Init /\ [][NextPanels]_vars

InitWithUptime ==
    /\ InitChat({"hub"}, {Missing})
    /\ InitFiles
    /\ InitMetrics({"server"})
    /\ InitClient({"none"})
    /\ InitPanels
    /\ InitUptime(StartUptimes)

SpecUptime == InitWithUptime /\ [][NextUptime]_vars

----------------------------------------------------------------------------
(* The message list and the relay *)

\* C1: in every reachable state of the server, whatever it loaded at
\* startup and whatever frames it handled since, the message list holds at
\* most MAX_MESSAGES entries.
C1_ListWithinCap == Len(messages) <= MAX_MESSAGES

\* The list is full after a message frame that overflowed it.
C1_Witness ==
    /\ up
    /\ lastFrame = "message"
    /\ nMut > MAX_MESSAGES
    /\ Len(messages) = MAX_MESSAGES

\* C2: starting from an empty list, with no clear in between, once more
\* than MAX_MESSAGES message frames were handled the list holds exactly
\* MAX_MESSAGES entries: the most recently received ones, newest first.
C2_NewestFirstAtCap ==
    (up /\ fromEmpty /\ Len(log) > MAX_MESSAGES) =>
        /\ Len(messages) = MAX_MESSAGES
        /\ \A i \in 1..MAX_MESSAGES : messages[i] = log[Len(log) + 1 - i]

\* One message more than the cap was stored since the list was empty, and
\* the oldest one is gone.
C2_Witness ==
    /\ up
    /\ fromEmpty
    /\ Len(log) = MAX_MESSAGES + 1
    /\ messages[1] = log[Len(log)]
    /\ \A i \in 1..Len(messages) : messages[i] # log[1]

\* C3: when the server handles a clear frame its list becomes empty and a
\* clear frame is sent on every connection that is OPEN at that moment and
\* on no other; a client that handles a clear frame empties its list.
C3_ClearEmptiesEveryList ==
    [][ /\ (nFrames' = nFrames + 1 /\ lastFrame' = "clear") =>
             /\ messages' = <<>>
             /\ \A c \in Conns :
                   sent'[c] = IF connState[c] = "OPEN"
                              THEN Append(sent[c], [type |-> "clear"])
                              ELSE sent[c]
        /\ \A c \in Conns :
             (delivered'[c] = delivered[c] + 1
                /\ sent[c][delivered[c] + 1].type = "clear") =>
                 view'[c] = <<>>
      ]_vars

\* Two connected clients that both showed a message have both handled the
\* clear frame, and both lists are empty.
C3_Witness ==
    \E c, d \in Conns :
        /\ c # d
        /\ \A e \in {c, d} :
              /\ connState[e] = "OPEN"
              /\ delivered[e] = Len(sent[e])
              /\ Len(sent[e]) >= 3
              /\ sent[e][Len(sent[e]) - 1].type = "message"
              /\ sent[e][Len(sent[e])].type = "clear"
              /\ view[e] = <<>>
        /\ messages = <<>>

\* C4: any two requests to /api/system-info whose handling starts less than
\* CACHE_DURATION apart are answered with the same payload (same values,
\* same timestamp), computed or simulated, overlapping or not.
C4_SamePayloadWithinCacheDuration ==
    \A r1, r2 \in ReqIds :
        (/\ reqs[r1].pc = "done"
         /\ reqs[r2].pc = "done"
         /\ reqs[r1].start <= reqs[r2].start
         /\ reqs[r2].start - reqs[r1].start < CACHE_DURATION) =>
            reqs[r2].payload = reqs[r1].payload

\* C5: DELETE /api/files/:filename for a filename that is no file of the
\* uploads directory answers {success: true} and leaves the directory as
\* it was.
C5_DeleteOfAbsentNameSucceeds ==
    (resp.op = "delete" /\ resp.param \notin DOMAIN dirBefore) =>
        /\ resp.status = 200
        /\ resp.success
        /\ uploadsDir = dirBefore

\* C6: for every uploaded file still stored, a download of the path in its
\* descriptor answers with the bytes that were uploaded and with the
\* original name as the Content-Disposition filename.
C6_DownloadRoundTrip ==
    \A i \in 1..Len(descriptors) :
        (resp.op = "download" /\ resp.param = RouteParam(descriptors[i].path)) =>
            /\ resp.status = 200
            /\ resp.body = descriptors[i].bytes
            /\ resp.disposition = descriptors[i].name

\* C7: no two uploaded files are ever given the same disk filename.
C7_DiskFilenamesUnique ==
    \A i, j \in 1..Len(assigned) : i # j => assigned[i] # assigned[j]

\* C8: the first frame sent on a connection is an init frame carrying the
\* list as it stood when the connection was made, and every later frame on
\* it is a message or a clear frame.
C8_InitFrameFirst ==
    \A c \in Conns :
        connState[c] # "NEW" =>
            /\ Len(sent[c]) >= 1
            /\ sent[c][1].type = "init"
            /\ sent[c][1].messages = listAtConnect[c]
            /\ \A i \in 2..Len(sent[c]) : sent[c][i].type \in {"message", "clear"}

\* A connection made while the list was not empty has since been sent a
\* broadcast frame.
C8_Witness ==
    \E c \in Conns :
        /\ connState[c] = "OPEN"
        /\ listAtConnect[c] # <<>>
        /\ Len(sent[c]) >= 2

\* C9: a message frame the server accepts is sent once on every connection
\* that is OPEN when it is handled, the sender's included, and on no
\* other; the broadcast frame carries the message now at the head of the list.
C9_BroadcastToOpenOnly ==
    [][ (nFrames' = nFrames + 1 /\ lastFrame' = "message") =>
            \A c \in Conns :
                sent'[c] = IF connState[c] = "OPEN"
                           THEN Append(sent[c], [type |-> "message",
                                                 message |-> messages'[1]])
                           ELSE sent[c]
      ]_vars

\* A message was just broadcast while one connection was OPEN and the
\* other was CLOSING: the first got it, the second did not.
C9_Witness ==
    \E c, d \in Conns :
        /\ lastFrame = "message"
        /\ connState[c] = "OPEN"
        /\ connState[d] = "CLOSING"
        /\ sent[c][Len(sent[c])] = [type |-> "message", message |-> messages[1]]
        /\ sent[d][Len(sent[d])].type = "init"

\* C10: since boot, one write was started per message or clear frame
\* applied and none for any other frame, and the data of the write started
\* last is the list as the mutation left it.
C10_OneWritePerMutation ==
    up =>
        /\ Len(started) = nMut
        /\ nMut > 0 => started[Len(started)] = messages

\* A message frame overflowed the list, a clear followed, and a frame that
\* is dropped came in between: two writes, the second of the empty list.
C10_Witness ==
    /\ up
    /\ nFrames = 3
    /\ nMut = 2
    /\ Len(started) = 2
    /\ started[1] # <<>>
    /\ started[2] = <<>>

\* C11: whenever the server runs and no write is in flight, messages.json
\* holds the in-memory list, so that a restart at that point would load
\* exactly this list.
C11_FileMatchesListWhenQuiescent ==
    (up /\ pendingWrites = <<>>) => LoadMessages(fileContent) = messages

\* C12: a malformed inbound frame (not JSON, a JSON object of another type,
\* a number, null) changes neither the list nor the writes in flight nor
\* the frames sent, and leaves the server running.
C12_MalformedFrameDropped ==
    [][ (nFrames' = nFrames + 1
           /\ lastFrame' \in IgnoredKinds \cup {"null"}) =>
            /\ up'
            /\ messages' = messages
            /\ pendingWrites' = pendingWrites
            /\ sent' = sent
      ]_vars

C14_ListingMatchesDirectory ==
    resp.op = "list" =>
        /\ resp.status = 200
        /\ Len(resp.files) = Cardinality(DOMAIN uploadsDir)
        /\ {resp.files[i].filename : i \in 1..Len(resp.files)} = DOMAIN uploadsDir
        /\ \A i \in 1..Len(descriptors) :
              \E j \in 1..Len(resp.files) :
                  resp.files[j].filename = descriptors[i].filename
        /\ \A i \in 1..Len(resp.files) :
              /\ resp.files[i].path = <<"/api/download/">> \o resp.files[i].filename
              /\ \E t \in {StartTime, StartTime + 1} :
                    resp.files[i].filename =
                        Digits(t) \o <<"-">> \o resp.files[i].name

\* Two files were uploaded, one of them under a name that itself starts
\* with digits and a dash, one was deleted, and the listing shows the other.
C14_Witness ==
    /\ resp.op = "list"
    /\ Len(assigned) = 2
    /\ Len(resp.files) = 1
    /\ Cardinality(DOMAIN uploadsDir) = 1
    /\ assigned[1] # assigned[2]
    /\ resp.files[1].name = <<"1", "-", "a">>

\* C15: DELETE /api/files/:filename for a file of the uploads directory
\* answers {success: true} and removes that file and no other: a download
\* of the name would answer 404, a listing would omit it, and every other
\* file is still there with the same content.
C15_DeleteRemovesOnlyThatFile ==
    (resp.op = "delete" /\ resp.param \in DOMAIN dirBefore) =>
        /\ resp.status = 200
        /\ resp.success
        /\ DOMAIN uploadsDir = DOMAIN dirBefore \ {resp.param}
        /\ \A f \in DOMAIN uploadsDir : uploadsDir[f] = dirBefore[f]
        /\ DownloadResponse(resp.param, uploadsDir, fileContent).status = 404
        /\ \A i \in 1..Len(ListFiles(uploadsDir)) :
              ListFiles(uploadsDir)[i].filename # resp.param

\* One of two stored files was deleted and the other one is still there.
C15_Witness ==
    /\ resp.op = "delete"
    /\ resp.param \in DOMAIN dirBefore
    /\ Cardinality(DOMAIN dirBefore) = 2
    /\ Cardinality(DOMAIN uploadsDir) = 1

\* C16: GET /api/download/:filename for a filename that is no file of the
\* uploads directory answers 404 without any file content and leaves the
\* directory as it was.
C16_DownloadOfAbsentNameIs404 ==
    (resp.op = "download" /\ resp.param \notin DOMAIN dirBefore) =>
        /\ resp.status = 404
        /\ resp.body = "none"
        /\ uploadsDir = dirBefore

\* C19: a client that is connected and has handled every frame the server
\* sent it shows exactly the server's list: same messages, same order,
\* same length.
C19_ViewEqualsServerList ==
    \A c \in Conns :
        (connState[c] = "OPEN" /\ delivered[c] >= 1
           /\ delivered[c] = Len(sent[c])) =>
            view[c] = messages

\* C18: the value stored under 'theme' is the name of the theme shown; the
\* theme a page load starts with is the one that was shown before the
\* reload; an even number of toggles since the load shows the theme the
\* load started with and an odd number the other one; and a load that
\* finds nothing stored starts in light mode.
C18_ThemePersisted ==
    /\ storedTheme = (IF isDark THEN "dark" ELSE "light")
    /\ shownBeforeLoad # "none" =>
          shownBeforeLoad = (IF darkAtLoad THEN "dark" ELSE "light")
    /\ isDark = (IF toggles % 2 = 0 THEN darkAtLoad ELSE ~darkAtLoad)
    /\ storedAtLoad = "none" => ~darkAtLoad

\* The page was reloaded while dark was shown: the reload started dark, and two toggles later dark is
\* shown again.
C18_Witness ==
    /\ shownBeforeLoad = "dark"
    /\ storedAtLoad = "dark"
    /\ darkAtLoad
    /\ toggles = 2
    /\ isDark
    /\ storedTheme = "dark"

C22_BroadcastsInAppliedOrder ==
    \A c \in Conns :
        Len(sent[c]) >= 2 =>
            \E k \in 0..Len(applied) :
                /\ k + Len(sent[c]) - 1 <= Len(applied)
                /\ \A i \in 2..Len(sent[c]) : sent[c][i] = applied[k + i - 1]

\* Both connections were sent a message frame and then a clear frame, the
\* second connection having missed a frame applied before it connected.
C22_Witness ==
    \E c, d \in Conns :
        /\ Len(applied) = 3
        /\ applied[3].type = "clear"
        /\ Len(sent[c]) = 4
        /\ Len(sent[d]) = 3
        /\ sent[d][2] = applied[2]
        /\ sent[d][3] = applied[3]

\* C21: after an upload request, every file of the request that is within
\* the size limit has a descriptor in the response, with its size and its
\* path, and is stored; and a request with a file over the limit does not
\* report success.
C21_OnlyTheSizeCapRejects ==
    resp.op = "upload" =>
        /\ \A i \in 1..Len(lastUpload) :
              AtMost(SizeOf(lastUpload[i].bytes), ByteCount(25, 0)) =>
                  \E j \in 1..Len(resp.files) :
                      /\ resp.files[j].size = SizeOf(lastUpload[i].bytes)
                      /\ resp.files[j].path =
                            <<"/api/download/">> \o resp.files[j].filename
                      /\ resp.files[j].filename \in DOMAIN uploadsDir
        /\ (\E i \in 1..Len(lastUpload) :
                ~AtMost(SizeOf(lastUpload[i].bytes), ByteCount(25, 0))) =>
              ~resp.success

\* C23: lastUpdate never decreases, and whenever there is a cached
\* snapshot its timestamp is lastUpdate.
C23_LastUpdateMonotonic ==
    [][ /\ lastUpdate' >= lastUpdate
        /\ systemInfoCache' # <<>> =>
              systemInfoCache'[1].timestamp = lastUpdate'
      ]_vars

\* C24: no download sends a file from outside the uploads directory and no
\* delete removes one: the messages file is never served and never changed
\* by a request to the file routes.
C24_RequestsStayInUploadsDir ==
    [][ /\ resp'.body # "messages.json"
        /\ fileContent' = fileContent
      ]_vars

----------------------------------------------------------------------------
(* C26  FileUpload: uploadFiles and loadFiles *)

----------------------------------------------------------------------------
(* C27  SystemStatus: fetchSystemInfo and its polling *)

\* C27: a fetch that fails or is answered non-OK keeps systemInfo, sets
\* isOnline to false and sets an error; an OK fetch replaces systemInfo by
\* its payload and sets isOnline to true; isLoading is true until the
\* first fetch settles and false from then on.
C27_FetchEffects ==
    [][ /\ (settled' = settled + 1 /\ fetchOutcome' # "ok")
              => /\ systemInfo' = systemInfo
                 /\ ~isOnline'
                 /\ statusError' # "none"
        /\ (settled' = settled + 1 /\ fetchOutcome' = "ok")
              => /\ systemInfo' = fetchData'
                 /\ isOnline'
        /\ isLoading' = (settled' = 0)
        /\ ~isLoading => ~isLoading' ]_vars

\* An answered fetch followed by a failed one, a third still in flight.
C27_Witness ==
    /\ settled = 2 /\ inFlight = 1
    /\ fetchOutcome = "network"
    /\ systemInfo = "load2" /\ ~isOnline /\ statusError = "network"
    /\ ~isLoading

----------------------------------------------------------------------------
(* C28  formatUptime *)

\* The text the parts d, h and m are to be rendered as.
UptimeParts(d, h, m) ==
    (IF d > 0 THEN Digits(d) \o <<"d", " ">> ELSE <<>>)
    \o (IF h > 0 THEN Digits(h) \o <<"h", " ">> ELSE <<>>)
    \o Digits(m) \o <<"m">>

\* C28: the text formatted from s seconds renders d = s div 86400,
\* h = (s mod 86400) div 3600 and m = (s mod 3600) div 60, with h < 24,
\* m < 60 and the rendered parts within a minute below s; the d part is
\* there exactly when d > 0, the h part exactly when h > 0, the m part
\* always.
C28_FormatUptimeParts ==
    uptimeOf >= 0 =>
        LET s == uptimeOf
            d == s \div 86400
            h == (s % 86400) \div 3600
            m == (s % 3600) \div 60
        IN  /\ h < 24 /\ m < 60
            /\ d * 86400 + h * 3600 + m * 60 <= s
            /\ s < d * 86400 + h * 3600 + m * 60 + 60
            /\ uptime = UptimeParts(d, h, m)
            /\ (s = 0 => uptime = <<"0", "m">>)

\* A full day and no more: the h part is left out, the m part is "0m".
C28_Witness ==
    /\ uptimeOf = 86400
    /\ uptime = <<"1", "d", " ", "0", "m">>
====
